---------------------------- MODULE Spec2Model ----------------------------
(***************************************************************************)
(* A model of ModelsML/DecisionTrees.py: the binary tree node              *)
(* (GeneralDecisionTree), the CART growth procedure                        *)
(* (DecisionTreeClassification.grow_tree with _best_split_classification)  *)
(* and traversal.                                                          *)
(*                                                                         *)
(* Conventions.  Python's None is the empty sequence <<>> and a present    *)
(* value v is <<v>>.  A float is an exact fraction <<num, den>> with       *)
(* den > 0; NaN (numpy's 0/0) is a pair with den = 0.  Labels are the      *)
(* integers 1..NumClasses, feature values the integers 0..NumValues-1.     *)
(* An example is named by its row index in X; the arrays X[mask, :] and    *)
(* y[mask] handed to a recursive call are the set of row indices kept.     *)
(***************************************************************************)
EXTENDS Integers, Sequences, FiniteSets, TLC

(* ------------------------------ bounds -------------------------------- *)
MaxExamples == 5
NumValues == 3
MaxFeatures == 2
NumClasses == 2
MaxMinSize == 2
MaxDepthArg == 1
MaxCalls == 2
MaxRegrowExamples == 3
MaxTraverseExamples == 3
PoolSize == 2
MaxChildren == 4

VARIABLES X, y, classes, data_types, nodes, stack, phase,
          min_size, max_depth, max_gini, calls, tx, tres

vars == <<X, y, classes, data_types, nodes, stack, phase,
          min_size, max_depth, max_gini, calls, tx, tres>>

None == <<>>
Some(v) == <<v>>

Values == 0 .. (NumValues - 1)
Labels == 1 .. NumClasses
DataTypes == {"n", "o", "c"}

(* ------------------------- float arithmetic --------------------------- *)
NaN == <<0, 0>>
IsNaN(a) == a[2] = 0
Lt(a, b) == ~IsNaN(a) /\ ~IsNaN(b) /\ a[1] * b[2] < b[1] * a[2]
IsZero(a) == ~IsNaN(a) /\ a[1] = 0
FAdd(a, b) == IF IsNaN(a) \/ IsNaN(b) THEN NaN
              ELSE <<a[1] * b[2] + b[1] * a[2], a[2] * b[2]>>
FScale(n, a) == IF IsNaN(a) THEN NaN ELSE <<n * a[1], a[2]>>
FDiv(a, n) == IF IsNaN(a) \/ n = 0 THEN NaN ELSE <<a[1], a[2] * n>>

RECURSIVE SumSeq(_)
SumSeq(s) == IF s = <<>> THEN 0 ELSE Head(s) + SumSeq(Tail(s))

RECURSIVE SumSquares(_)
SumSquares(s) == IF s = <<>> THEN 0 ELSE Head(s) * Head(s) + SumSquares(Tail(s))

(* util.gini(counts, n): 1 - sum((counts / n) ** 2); numpy gives nan for n = 0 *)
gini(counts, n) ==
    IF n = 0 THEN NaN ELSE <<n * n - SumSquares(counts), n * n>>

(* ----------------------------- np.unique ------------------------------ *)
SetMin(S) == CHOOSE m \in S : \A v \in S : m <= v

RECURSIVE unique(_)
unique(S) == IF S = {} THEN <<>>
             ELSE <<SetMin(S)>> \o unique(S \ {SetMin(S)})

(* util.find_splits(unique_values): the candidate values of a categorical feature *)
find_splits(u) == u

(* the class distribution of the examples E, laid out over `classes` the way
   lines 216-225 do: counts sorted by label, written to the positions of
   `classes` that hold a present label, in position order *)
LabelsOf(E) == {y[e] : e \in E}
CountOf(E, l) == Cardinality({e \in E : y[e] = l})
AlignedDistribution(E) ==
    LET uniq   == unique(LabelsOf(E))
        inx(i) == classes[i] \in LabelsOf(E)
        rank(i) == Cardinality({j \in 1 .. i : inx(j)})
    IN  [i \in 1 .. Len(classes) |->
            IF inx(i) THEN CountOf(E, uniq[rank(i)]) ELSE 0]


(* --------------------- _best_split_classification --------------------- *)
FeatureValue(e, idx) == X[e][idx + 1]

(* lines 205-208: the examples a candidate sends to the right *)
Selection(S, idx, data_type, threshold) ==
    {e \in S : IF data_type = "c"
               THEN FeatureValue(e, idx) = threshold
               ELSE FeatureValue(e, idx) > threshold}

(* lines 196-201: the candidates, in the order the loop visits them *)
PossibleThresholds(S, idx, data_type) ==
    LET u == unique({FeatureValue(e, idx) : e \in S})
    IN  IF data_type = "c" THEN find_splits(u) ELSE u

(* lines 228-232: the size-weighted impurity of one candidate *)
GiniSplit(S, right) ==
    LET left       == S \ right
        num_labels == Cardinality(S)
        num_right  == Cardinality(right)
        gini_right == gini(AlignedDistribution(right), num_right)
        gini_left  == gini(AlignedDistribution(left), num_labels - num_right)
    IN  FDiv(FAdd(FScale(num_right, gini_right),
                  FScale(num_labels - num_right, gini_left)), num_labels)

(* line 234 with `<=` for `<`: a later candidate of equal impurity wins *)
BetterOrEqualThreshold(gini_split, impurity) ==
    ~IsNaN(gini_split) /\ ~IsNaN(impurity) /\ ~Lt(impurity, gini_split)

(* line 234: a candidate replaces the running best *)
BetterThreshold(gini_split, impurity) == Lt(gini_split, impurity)

RECURSIVE ThresholdLoop(_, _, _, _, _)
ThresholdLoop(S, idx, data_type, thresholds, best) ==
    IF thresholds = <<>> THEN best
    ELSE LET threshold  == Head(thresholds)
             right      == Selection(S, idx, data_type, threshold)
             gini_split == GiniSplit(S, right)
             next == IF BetterThreshold(gini_split, best.impurity)
                     THEN [best_thr |-> Some(threshold),
                           impurity |-> gini_split,
                           best_left_dist  |-> Some(AlignedDistribution(S \ right)),
                           best_right_dist |-> Some(AlignedDistribution(right))]
                     ELSE best
         IN  ThresholdLoop(S, idx, data_type, Tail(thresholds), next)

best_split_classification(S, idx, data_type) ==
    ThresholdLoop(S, idx, data_type, PossibleThresholds(S, idx, data_type),
                  [best_thr |-> None, impurity |-> <<1, 1>>,
                   best_left_dist |-> None, best_right_dist |-> None])

(* ------------------------------ grow_tree ----------------------------- *)
NumFeatures == Len(data_types)

(* line 123: a feature replaces the running best *)
BetterFeature(new_gini, best_gini) == Lt(new_gini, best_gini)

(* lines 116-124: the loop over the feature columns; left_distribution and
   right_distribution are plain locals, assigned anew by every iteration *)
RECURSIVE FeatureLoop(_, _, _)
FeatureLoop(S, idx, acc) ==
    IF idx >= NumFeatures THEN acc
    ELSE LET new == best_split_classification(S, idx, data_types[idx + 1])
             upd == IF BetterFeature(new.impurity, acc.best_gini)
                    THEN [acc EXCEPT !.best_gini  = new.impurity,
                                     !.best_thr   = new.best_thr,
                                     !.best_p_ind = Some(idx),
                                     !.best_type  = Some(data_types[idx + 1])]
                    ELSE acc
         IN  FeatureLoop(S, idx + 1,
                 [upd EXCEPT !.left_distribution  = new.best_left_dist,
                             !.right_distribution = new.best_right_dist])

Search(S, best_gini) ==
    FeatureLoop(S, 0, [best_gini |-> best_gini, best_thr |-> None,
                       best_p_ind |-> None, best_type |-> None,
                       left_distribution |-> None, right_distribution |-> None])

(* lines 107-114: the stopping criteria checked before the search *)
Stops(f) ==
    \/ Cardinality(f.S) < min_size
    \/ IsZero(f.best_gini)
    \/ (max_depth # None /\ f.current_depth > max_depth[1])

(* line 127 *)
Commits(r, ceiling) == r.best_thr # None /\ Lt(r.best_gini, ceiling)

(* lines 131-134: the closure stored in split_rule *)
MakeRule(best_type, best_thr) ==
    IF best_type \in {"n", "o"} THEN [kind |-> "gt", thr |-> best_thr]
                                ELSE [kind |-> "eq", thr |-> best_thr]

(* line 132 with `>=` for `>` *)
ApplyRuleGe(rule, x_val) ==
    IF rule.kind = "gt" THEN (IF x_val >= rule.thr THEN 1 ELSE 0)
                        ELSE (IF x_val = rule.thr THEN 1 ELSE 0)

(* the value split_rule returns on a feature value: a child index *)
ApplyRule(rule, x_val) ==
    IF rule.kind = "gt" THEN (IF x_val > rule.thr THEN 1 ELSE 0)
                        ELSE (IF x_val = rule.thr THEN 1 ELSE 0)

(* lines 137-141: the partition the stored rule realises *)
Side(S, rule, idx, k) == {e \in S : ApplyRule(rule, FeatureValue(e, idx)) = k}

(* line 143 without its second disjunct *)
TooSmallRightOnly(left, right) == Cardinality(right) < min_size

(* line 143 *)
TooSmall(left, right) ==
    Cardinality(right) < min_size \/ Cardinality(left) < min_size


(* ------------------------------ the state ----------------------------- *)
(* A node object.  `examples` is the (X, y) subset its grow_tree call was
   handed: the root's by the caller, a child's by lines 140-141. *)
NewNode(class_counts, n_subset, examples) ==
    [split_feature |-> None, split_rule |-> None, children |-> <<>>,
     class_counts |-> class_counts, n_subset |-> n_subset,
     examples |-> examples]

Root == 1

(* an activation of grow_tree: its arguments and locals *)
NewFrame(self, S, best_gini, current_depth, ceiling) ==
    [self |-> self, S |-> S, best_gini |-> best_gini,
     current_depth |-> current_depth, max_gini |-> ceiling, pc |-> "enter",
     best_p_ind |-> None, left_distribution |-> None,
     right_distribution |-> None, left |-> {}, right |-> {},
     left_tree |-> None, right_tree |-> None]

Top == stack[Len(stack)]
Running == phase = "growing" /\ stack # <<>>

(* a return of the top activation *)
Return ==
    /\ stack' = SubSeq(stack, 1, Len(stack) - 1)
    /\ phase' = IF Len(stack) = 1 THEN "done" ELSE "growing"

(* children.setter, lines 28-34: the appends made before an assertion fails,
   or all of them *)
RECURSIVE AppendChildren(_, _)
AppendChildren(held, children) ==
    IF children = <<>> \/ Head(children) = None THEN held
    ELSE AppendChildren(Append(held, Head(children)[1]), Tail(children))

SetterRaises(children) ==
    Len(children) # 2 \/ \E i \in 1 .. Len(children) : children[i] = None

children_setter(held, children) ==
    IF Len(children) # 2 THEN held ELSE AppendChildren(held, children)

(* ------------------------- the inputs of a run ------------------------ *)
(* the datasets: one representative of every multiset of examples, since
   grow_tree reads the rows only through np.unique and boolean masks *)
SizesFor(F) == 1 .. (MaxExamples - 2 * (F - 1))
ValuesFor(F) == 0 .. (NumValues - F)

RECURSIVE Pow(_, _)
Pow(b, e) == IF e = 0 THEN 1 ELSE b * Pow(b, e - 1)

KindsFor(F) == 0 .. (NumClasses * Pow(Cardinality(ValuesFor(F)), F) - 1)
KindLabel(k) == (k % NumClasses) + 1
KindRow(F, k) ==
    [i \in 1 .. F |->
        ((k \div (NumClasses * Pow(Cardinality(ValuesFor(F)), i - 1)))
            % Cardinality(ValuesFor(F)))]

RECURSIVE Multisets(_, _)
Multisets(F, n) ==
    IF n = 0 THEN {<<>>}
    ELSE {Append(s, k) : s \in Multisets(F, n - 1), k \in KindsFor(F)}
           \ {t \in {Append(s, k) : s \in Multisets(F, n - 1), k \in KindsFor(F)} :
                 Len(t) > 1 /\ t[Len(t) - 1] > t[Len(t)]}

ClassOrderings ==
    {c \in [1 .. NumClasses -> Labels] : \A i, j \in 1 .. NumClasses : c[i] = c[j] => i = j}

MinSizes == 0 .. MaxMinSize
MaxDepths == {None} \cup {Some(d) : d \in 0 .. MaxDepthArg}
MaxGinis == {<<1, 3>>, <<1, 1>>}

All == 1 .. Len(y)

(* the state once the caller has built the root for a dataset of F columns
   and n rows: class_counts and n_subset are the dataset's own *)
Constructed(F, n) ==
    /\ \E d \in Multisets(F, n) :
          /\ X = [e \in 1 .. n |-> KindRow(F, d[e])]
          /\ y = [e \in 1 .. n |-> KindLabel(d[e])]
    /\ data_types \in [1 .. F -> DataTypes]
    /\ classes \in ClassOrderings
    /\ nodes = <<NewNode([i \in 1 .. NumClasses |->
                             Cardinality({e \in 1 .. Len(y) : y[e] = classes[i]})],
                         Len(y), 1 .. Len(y))>>
    /\ stack = <<>>
    /\ phase = "idle"
    /\ min_size = 2
    /\ max_depth = None
    /\ max_gini = <<1, 1>>
    /\ calls = 0
    /\ tx = None
    /\ tres = None

Init == \E F \in 1 .. MaxFeatures : \E n \in SizesFor(F) : Constructed(F, n)

(* ------------------------------ the steps ----------------------------- *)
(* the caller invokes root.grow_tree(X, y, data_types, gini(root), classes, ...) *)
Call(ms, md, mg) ==
    /\ min_size' = ms
    /\ max_depth' = md
    /\ max_gini' = mg
    /\ calls' = calls + 1
    /\ stack' = <<NewFrame(Root, All, gini(nodes[Root].class_counts, Len(y)), 0, mg)>>
    /\ phase' = "growing"
    /\ tx' = None
    /\ tres' = None
    /\ UNCHANGED <<X, y, classes, data_types, nodes>>

GrowCall ==
    /\ phase = "idle"
    /\ \E ms \in MinSizes, md \in MaxDepths, mg \in MaxGinis : Call(ms, md, mg)

(* lines 107-114: a stopping criterion holds *)
GrowStop ==
    /\ Running /\ Top.pc = "enter"
    /\ Stops(Top)
    /\ Return
    /\ UNCHANGED <<X, y, classes, data_types, nodes, min_size, max_depth,
                   max_gini, calls, tx, tres>>

(* lines 116-127, 168-172: the search finds nothing to commit *)
GrowNoSplit ==
    /\ Running /\ Top.pc = "enter"
    /\ ~Stops(Top)
    /\ ~Commits(Search(Top.S, Top.best_gini), Top.max_gini)
    /\ Return
    /\ UNCHANGED <<X, y, classes, data_types, nodes, min_size, max_depth,
                   max_gini, calls, tx, tres>>

(* lines 116-141: the search commits; the split fields are set and the
   examples partitioned by the stored rule *)
GrowSetSplit ==
    /\ Running /\ Top.pc = "enter"
    /\ ~Stops(Top)
    /\ LET r == Search(Top.S, Top.best_gini)
           rule == MakeRule(r.best_type[1], r.best_thr[1])
       IN  /\ Commits(r, Top.max_gini)
           /\ nodes' = [nodes EXCEPT ![Top.self].split_feature = r.best_p_ind,
                                     ![Top.self].split_rule = Some(rule)]
           /\ stack' = [stack EXCEPT ![Len(stack)] =
                  [Top EXCEPT !.pc = "split",
                              !.best_p_ind = r.best_p_ind,
                              !.left_distribution = r.left_distribution,
                              !.right_distribution = r.right_distribution,
                              !.right = Side(Top.S, rule, r.best_p_ind[1], 1),
                              !.left = Side(Top.S, rule, r.best_p_ind[1], 0)]]
    /\ UNCHANGED <<X, y, classes, data_types, phase, min_size, max_depth,
                   max_gini, calls, tx, tres>>

(* lines 143-147: a side is below min_size; the split fields are reverted *)
GrowDiscard ==
    /\ Running /\ Top.pc = "split"
    /\ TooSmall(Top.left, Top.right)
    /\ nodes' = [nodes EXCEPT ![Top.self].split_rule = None,
                              ![Top.self].split_feature = None]
    /\ Return
    /\ UNCHANGED <<X, y, classes, data_types, min_size, max_depth,
                   max_gini, calls, tx, tres>>

(* lines 150-154 when the last feature searched had no split: np.array(None)
   reaches gini and the TypeError leaves every active grow_tree *)
GrowRaise ==
    /\ Running /\ Top.pc = "split"
    /\ ~TooSmall(Top.left, Top.right)
    /\ Top.left_distribution = None
    /\ phase' = "raised"
    /\ stack' = <<>>
    /\ UNCHANGED <<X, y, classes, data_types, nodes, min_size, max_depth,
                   max_gini, calls, tx, tres>>

(* lines 150-155: construct the left child and grow it *)
GrowLeft ==
    /\ Running /\ Top.pc = "split"
    /\ ~TooSmall(Top.left, Top.right)
    /\ Top.left_distribution # None
    /\ LET dist == Top.left_distribution[1]
           id   == Len(nodes) + 1
       IN  /\ nodes' = Append(nodes, NewNode(dist, SumSeq(dist), Top.left))
           /\ stack' = Append([stack EXCEPT ![Len(stack)] =
                                  [Top EXCEPT !.pc = "left", !.left_tree = Some(id)]],
                              NewFrame(id, Top.left, gini(dist, Cardinality(Top.left)),
                                       Top.current_depth + 1, <<1, 1>>))
    /\ UNCHANGED <<X, y, classes, data_types, phase, min_size, max_depth,
                   max_gini, calls, tx, tres>>

(* lines 158-163: construct the right child and grow it *)
GrowRight ==
    /\ Running /\ Top.pc = "left"
    /\ LET dist == Top.right_distribution[1]
           id   == Len(nodes) + 1
       IN  /\ nodes' = Append(nodes, NewNode(dist, SumSeq(dist), Top.right))
           /\ stack' = Append([stack EXCEPT ![Len(stack)] =
                                  [Top EXCEPT !.pc = "right", !.right_tree = Some(id)]],
                              NewFrame(id, Top.right, gini(dist, Cardinality(Top.right)),
                                       Top.current_depth + 1, <<1, 1>>))
    /\ UNCHANGED <<X, y, classes, data_types, phase, min_size, max_depth,
                   max_gini, calls, tx, tres>>

(* line 166: self.children = [left_tree, right_tree] *)
GrowAttach ==
    /\ Running /\ Top.pc = "right"
    /\ nodes' = [nodes EXCEPT ![Top.self].children =
                    children_setter(@, <<Top.left_tree, Top.right_tree>>)]
    /\ Return
    /\ UNCHANGED <<X, y, classes, data_types, min_size, max_depth,
                   max_gini, calls, tx, tres>>

(* ------------------------------ traverse ------------------------------ *)
NA == None
TestVectors == [1 .. NumFeatures -> {NA} \cup {Some(v) : v \in ValuesFor(NumFeatures)}]

Returned(n) == [result |-> "node", node |-> n]
Raised(error, n) == [result |-> error, node |-> n]

(* line 44: `self.children is None`; children is always a list *)
ChildrenIsNone(n) == FALSE

(* lines 41-52.  A leaf's split_rule is None and calling it raises the
   TypeError line 48 catches.  On a missing value, `None > thr` raises
   TypeError; `None == thr` is False, which numpy returns either as its own
   bool (astype succeeds, child 0) or as Python's (astype raises
   AttributeError, uncaught), so both outcomes are kept.  Line 51 turns the
   0/1 the rule returns into the list index used by line 52. *)
RECURSIVE traverse(_, _)
traverse(n, x) ==
    LET nd == nodes[n]
        descend(i) == IF i + 1 > Len(nd.children) THEN {Raised("IndexError", n)}
                      ELSE traverse(nd.children[i + 1], x)
    IN  IF ChildrenIsNone(n) THEN {Returned(n)}
        ELSE IF nd.split_rule = None \/ nd.split_feature = None THEN {Returned(n)}
        ELSE LET x_val == x[nd.split_feature[1] + 1]
                 rule  == nd.split_rule[1]
             IN  IF x_val = NA
                 THEN IF rule.kind = "gt" THEN {Returned(n)}
                      ELSE {Raised("AttributeError", n)} \cup descend(0)
                 ELSE descend(ApplyRule(rule, x_val[1]))

Traverse ==
    /\ phase = "done"
    /\ \E x \in TestVectors : \E r \in traverse(Root, x) :
          /\ tx' = Some(x)
          /\ tres' = Some(r)
    /\ UNCHANGED <<X, y, classes, data_types, nodes, stack, phase,
                   min_size, max_depth, max_gini, calls>>

Next ==
    \/ GrowCall
    \/ GrowStop
    \/ GrowNoSplit
    \/ GrowSetSplit
    \/ GrowDiscard
    \/ GrowRaise
    \/ GrowLeft
    \/ GrowRight
    \/ GrowAttach

Spec == Init /\ [][Next]_vars

(* ------------------- growth followed by traversals -------------------- *)
InitTraverse ==
    \E F \in 1 .. MaxFeatures :
        \E n \in 1 .. (MaxTraverseExamples - (F - 1)) : Constructed(F, n)

NextTraverse ==
    \/ GrowCall
    \/ GrowStop
    \/ GrowNoSplit
    \/ GrowSetSplit
    \/ GrowDiscard
    \/ GrowRaise
    \/ GrowLeft
    \/ GrowRight
    \/ GrowAttach
    \/ Traverse

SpecTraverse == InitTraverse /\ [][NextTraverse]_vars

(* --------------------- grow_tree called more than once ---------------- *)
InitRegrow == \E n \in 1 .. MaxRegrowExamples : Constructed(1, n)

GrowAgain ==
    /\ phase = "done"
    /\ calls < MaxCalls
    /\ \E ms \in MinSizes, md \in MaxDepths, mg \in MaxGinis : Call(ms, md, mg)

NextRegrow ==
    \/ GrowCall
    \/ GrowStop
    \/ GrowNoSplit
    \/ GrowSetSplit
    \/ GrowDiscard
    \/ GrowLeft
    \/ GrowRight
    \/ GrowAttach
    \/ GrowAgain

SpecRegrow == InitRegrow /\ [][NextRegrow]_vars

(* --------------------- the children property alone -------------------- *)
NotANode == None
Pool == 1 .. PoolSize
Assignable == {NotANode} \cup {Some(m) : m \in Pool}
Assignments ==
    {<<>>} \cup {<<a>> : a \in Assignable}
           \cup {<<a, b>> : a \in Assignable, b \in Assignable}
           \cup {<<a, b, c>> : a \in Assignable, b \in Assignable, c \in Assignable}

InitChildren ==
    /\ nodes = [n \in Pool |-> NewNode(<<>>, 0, {})]
    /\ X = <<>> /\ y = <<>> /\ classes = <<>> /\ data_types = <<>>
    /\ stack = <<>>
    /\ phase = "nodes"
    /\ min_size = 2
    /\ max_depth = None
    /\ max_gini = <<1, 1>>
    /\ calls = 0
    /\ tx = None
    /\ tres = None

(* node.children = cs, accepted: lines 28-34 run to the end *)
SetChildren ==
    /\ phase = "nodes"
    /\ \E n \in Pool, cs \in Assignments :
          /\ ~SetterRaises(cs)
          /\ Len(nodes[n].children) + 2 <= MaxChildren
          /\ nodes' = [nodes EXCEPT ![n].children = children_setter(@, cs)]
    /\ UNCHANGED <<X, y, classes, data_types, stack, phase, min_size,
                   max_depth, max_gini, calls, tx, tres>>

(* node.children = cs, rejected: an assertion of lines 30-33 fails and the
   caller carries on *)
SetChildrenRejected ==
    /\ phase = "nodes"
    /\ \E n \in Pool, cs \in Assignments :
          /\ SetterRaises(cs)
          /\ Len(nodes[n].children) + 2 <= MaxChildren
          /\ nodes' = [nodes EXCEPT ![n].children = children_setter(@, cs)]
    /\ UNCHANGED <<X, y, classes, data_types, stack, phase, min_size,
                   max_depth, max_gini, calls, tx, tres>>

(* list.remove(child): drop the first element equal to child *)
RECURSIVE RemoveFirst(_, _)
RemoveFirst(s, c) ==
    IF s = <<>> THEN <<>>
    ELSE IF Head(s) = c THEN Tail(s)
    ELSE <<Head(s)>> \o RemoveFirst(Tail(s), c)

(* children.deleter, lines 36-39: a for loop over the list it removes from;
   the list iterator moves on by position *)
RECURSIVE DeleterLoop(_, _)
DeleterLoop(held, i) ==
    IF i > Len(held) THEN held
    ELSE DeleterLoop(RemoveFirst(held, held[i]), i + 1)

children_deleter(held) == DeleterLoop(held, 1)

(* del node.children *)
DelChildren ==
    /\ phase = "nodes"
    /\ \E n \in Pool :
          nodes' = [nodes EXCEPT ![n].children = children_deleter(@)]
    /\ UNCHANGED <<X, y, classes, data_types, stack, phase, min_size,
                   max_depth, max_gini, calls, tx, tres>>

NextChildren ==
    \/ SetChildren
    \/ SetChildrenRejected
    \/ DelChildren

SpecChildren == InitChildren /\ [][NextChildren]_vars

(* ============================ properties ============================== *)
NodeIds == 1 .. Len(nodes)
HasChildren(n) == nodes[n].children # <<>>
SplitSet(n) == nodes[n].split_feature # None /\ nodes[n].split_rule # None

(* the class counts of the examples E over the supplied class ordering *)
TrueCounts(E) ==
    [i \in 1 .. Len(classes) |-> Cardinality({e \in E : y[e] = classes[i]})]

(* the examples of node n that its stored rule sends to child k *)
Routed(n, k) ==
    {e \in nodes[n].examples :
        LET v == FeatureValue(e, nodes[n].split_feature[1])
            r == nodes[n].split_rule[1]
        IN  (IF r.kind = "gt" THEN v > r.thr ELSE v = r.thr) <=> (k = 1)}

(* the weighted impurity of candidate (f, t) on the examples S *)
Impurity(S, f, t) == GiniSplit(S, Selection(S, f, data_types[f + 1], t))
CommittedImpurity(n) ==
    Impurity(nodes[n].examples, nodes[n].split_feature[1], nodes[n].split_rule[1].thr)
OwnImpurity(n) ==
    gini(TrueCounts(nodes[n].examples), Cardinality(nodes[n].examples))
Same(a, b) == ~IsNaN(a) /\ ~IsNaN(b) /\ ~Lt(a, b) /\ ~Lt(b, a)

(* C1: every child created by a committed split has class_counts equal to
   the class counts, over the supplied class ordering, of exactly the
   examples its parent's stored rule routes to it. *)
C1_ChildCountsAreRoutedCounts ==
    \A n \in NodeIds :
        (HasChildren(n) /\ SplitSet(n)) =>
            \A k \in {0, 1} :
                nodes[nodes[n].children[k + 1]].class_counts = TrueCounts(Routed(n, k))

(* C2: with max_depth = 0 the root never gets children. *)
C2_DepthZeroStaysLeaf ==
    max_depth = Some(0) => ~HasChildren(Root)

(* C3: min_size is respected at commit time.  After grow_tree, a node whose
   best split realises a side below min_size has its split fields absent
   and no children; and every node with children has exactly two, each of
   which received at least min_size examples. *)
C3_MinSizeAtCommit ==
    phase = "done" =>
        \A n \in NodeIds :
            /\ HasChildren(n) =>
                  /\ Len(nodes[n].children) = 2
                  /\ \A i \in 1 .. 2 :
                        Cardinality(nodes[nodes[n].children[i]].examples) >= min_size
            /\ LET S == nodes[n].examples
                   r == Search(S, gini(nodes[n].class_counts, Cardinality(S)))
               IN  (r.best_thr # None /\
                    \E k \in {0, 1} :
                        Cardinality({e \in S :
                            LET v == FeatureValue(e, r.best_p_ind[1])
                            IN  (IF r.best_type[1] = "c" THEN v = r.best_thr[1]
                                                         ELSE v > r.best_thr[1])
                                <=> (k = 1)}) < min_size)
                   => (nodes[n].split_feature = None /\ nodes[n].split_rule = None
                       /\ ~HasChildren(n))

(* C3 witness: a finished growth in which one node's best split was discarded
   for a small side and another node committed a split. *)
C3_Witness ==
    /\ phase = "done"
    /\ \E m \in NodeIds : HasChildren(m)
    /\ \E n \in NodeIds :
          LET S == nodes[n].examples
              r == Search(S, gini(nodes[n].class_counts, Cardinality(S)))
          IN  /\ Cardinality(S) >= min_size
              /\ r.best_thr # None
              /\ \E k \in {0, 1} :
                    Cardinality(Side(S, MakeRule(r.best_type[1], r.best_thr[1]),
                                     r.best_p_ind[1], k)) < min_size
              /\ ~SplitSet(n)

(* C4: a split is committed at a node, at any depth, only if its weighted
   impurity is strictly below the call's max_gini and strictly below the
   node's own impurity. *)
C4_CommitBelowCeilingAndParent ==
    \A n \in NodeIds :
        (HasChildren(n) /\ SplitSet(n)) =>
            /\ Lt(CommittedImpurity(n), max_gini)
            /\ Lt(CommittedImpurity(n), OwnImpurity(n))

(* C5: whenever no grow_tree call is running, after any number of calls, a
   node has children exactly if both its split fields are set. *)
C5_ChildrenIffSplitFields ==
    phase \in {"idle", "done"} =>
        \A n \in NodeIds : HasChildren(n) <=> SplitSet(n)

(* C6: after any sequence of assignments, rejected assignments and clears, a
   node holds exactly zero or exactly two children. *)
C6_ZeroOrTwoChildren ==
    \A n \in NodeIds : Len(nodes[n].children) \in {0, 2}

(* C7: every node has n_subset = sum(class_counts), and every node with
   children has n_subset equal to the sum of its children's n_subset. *)
C7_SubsetSizesAddUp ==
    \A n \in NodeIds :
        /\ nodes[n].n_subset = SumSeq(nodes[n].class_counts)
        /\ HasChildren(n) =>
              nodes[n].n_subset =
                  SumSeq([i \in 1 .. Len(nodes[n].children) |->
                             nodes[nodes[n].children[i]].n_subset])

(* C8: every recursive call of grow_tree is handed a strictly smaller subset
   of its caller's examples, so the recursion is never deeper than the
   dataset is large. *)
C8_StrictlySmallerSubsets ==
    /\ \A i \in 2 .. Len(stack) :
          /\ stack[i].S \subseteq stack[i - 1].S
          /\ stack[i].S # stack[i - 1].S
    /\ Len(stack) <= Len(y)

(* C8 witness: with max_depth unset, the recursion is two calls below the root. *)
C8_Witness ==
    /\ max_depth = None
    /\ Len(stack) >= 3
    /\ Cardinality(stack[3].S) < Cardinality(stack[2].S)

(* what C9 says traverse returns from node n on the vector x *)
RECURSIVE ClaimedTraverse(_, _)
ClaimedTraverse(n, x) ==
    IF ~HasChildren(n) THEN n
    ELSE IF x[nodes[n].split_feature[1] + 1] = NA THEN n
    ELSE ClaimedTraverse(
             nodes[n].children[ApplyRule(nodes[n].split_rule[1],
                                         x[nodes[n].split_feature[1] + 1][1]) + 1], x)

(* C9: traverse surfaces no failure: it returns the internal node at which
   the vector's value for the split feature is missing, and otherwise the
   childless node the split rules lead to. *)
C9_TraverseReturnsNode ==
    tres # None => tres[1] = Returned(ClaimedTraverse(Root, tx[1]))

(* C10: first-wins tie-breaking.  Wherever split fields are set, no candidate
   (feature, threshold) has a smaller weighted impurity than the stored one,
   and every candidate of equal impurity comes later: a higher column, or
   the same column and a later threshold in ascending order. *)
C10_FirstWins ==
    \A n \in NodeIds :
        SplitSet(n) =>
            LET S == nodes[n].examples
                f == nodes[n].split_feature[1]
                t == nodes[n].split_rule[1].thr
                g == Impurity(S, f, t)
            IN  /\ ~IsNaN(g)
                /\ \A ff \in 0 .. (NumFeatures - 1) :
                   \A e \in S :
                      LET tt == FeatureValue(e, ff)
                          gg == Impurity(S, ff, tt)
                      IN  IsNaN(gg) \/
                          (/\ ~Lt(gg, g)
                           /\ Same(gg, g) => (ff > f \/ (ff = f /\ tt >= t)))

(* C10 witness: a committed split that won a tie against a later threshold of
   its own column and against a later column. *)
C10_Witness ==
    \E n \in NodeIds :
        /\ HasChildren(n) /\ SplitSet(n)
        /\ LET S == nodes[n].examples
               f == nodes[n].split_feature[1]
               t == nodes[n].split_rule[1].thr
               g == Impurity(S, f, t)
           IN  /\ \E e \in S : FeatureValue(e, f) > t
                               /\ Same(Impurity(S, f, FeatureValue(e, f)), g)
               /\ \E ff \in (f + 1) .. (NumFeatures - 1) :
                  \E e \in S : Same(Impurity(S, ff, FeatureValue(e, ff)), g)

============================================================================
